---------------------------- MODULE Spec2Model ----------------------------
(***************************************************************************)
(* A model of the task-management HTTP service: the registration and       *)
(* token-issuance handlers (controllers/authController.ts), the bearer     *)
(* gate (authenticateJWT), the task handlers (getAllTasks, createTask,     *)
(* updateTask) and the validation the storage client runs on create and    *)
(* update (models/Task.ts, models/User.ts).                                *)
(*                                                                         *)
(* A handler suspends at each awaited store or hasher call.  A request     *)
(* that is suspended sits in a slot of inflight; each action runs one      *)
(* handler from a resumption up to its next suspension or its response.    *)
(* resp is the response written by the step just taken (NoResp when the    *)
(* step wrote none).                                                       *)
(***************************************************************************)
EXTENDS Integers, Sequences, FiniteSets, TLC

VARIABLES users, tasks, creator, tokens, now, inflight, resp

vars == <<users, tasks, creator, tokens, now, inflight, resp>>

----------------------------------------------------------------------------
(* Bounds of the model *)

\* requests that may be suspended at the same time
MaxInFlight == 2
\* rows the Task Store may hold
MaxTasks == 2
\* clock steps taken in the full specification
MaxTicks == 2

Slots == 1..MaxInFlight

----------------------------------------------------------------------------
(* JavaScript values.  A value carries its type tag, as typeof reports it. *)

Undefined == [t |-> "undefined"]
Null == [t |-> "null"]
Str(s) == [t |-> "string", v |-> s]
Bool(b) == [t |-> "boolean", v |-> b]

IsString(x) == x.t = "string"

\* Credentials, emails and passwords are sequences of characters.
Falsy(x) == x.t \in {"undefined", "null"} \/ (x.t = "string" /\ x.v = <<>>)

\* String.prototype.split(sep): the fields between the separators, in order.
RECURSIVE Split(_, _)
Split(s, sep) ==
    IF \A i \in 1..Len(s) : s[i] # sep
    THEN <<s>>
    ELSE LET i == CHOOSE k \in 1..Len(s) :
                      s[k] = sep /\ \A j \in 1..(k - 1) : s[j] # sep
         IN  <<SubSeq(s, 1, i - 1)>> \o Split(SubSeq(s, i + 1, Len(s)), sep)

\* const [a, b] = array: a missing element destructures to undefined.
Element(parts, i) == IF i <= Len(parts) THEN Str(parts[i]) ELSE Undefined

----------------------------------------------------------------------------
(* The characters and the strings requests are built from *)

Letters == {"a", "b", "c", "d", "o", "p", "r", "s", "w", "z", "h", "t"}
Digits == {"0", "1", "2", "9"}

EmailA == <<"a", "@", "b", ".", "c", "o">>
EmailZ == <<"z", "@", "b", ".", "c", "o">>
EmailN == <<"n", "@", "b", ".", "c", "o">>
\* 'invalid-email' of the tests: no @
EmailBad == <<"b", "a", "d">>

PwPlain == <<"p", "a", "s", "s", "w", "o", "r", "d">>
PwColon == <<"p", "a", "s", "s", ":", "w", "r", "d">>
PwShort == <<"s", "h", "o", "r", "t">>

----------------------------------------------------------------------------
(* models/User.ts: userSchema, run by the storage client on user.create *)

LocalChars == Letters \cup Digits \cup {"_", "'", "+", "-", "."}
LocalLast == Letters \cup Digits \cup {"_", "+", "-"}

\* ([A-Za-z0-9][A-Za-z0-9\-]*\.)+ : labels, each closed by a dot
DomainLabels(d) ==
    /\ Len(d) >= 2
    /\ d[Len(d)] = "."
    /\ d[1] \in Letters \cup Digits
    /\ \A i \in 1..Len(d) : d[i] \in Letters \cup Digits \cup {"-", "."}
    /\ \A i \in 1..(Len(d) - 1) : d[i] = "." => d[i + 1] \in Letters \cup Digits

\* zod's z.email():
\* ^(?!\.)(?!.*\.\.)([A-Za-z0-9_'+\-\.]*)[A-Za-z0-9_+-]@([A-Za-z0-9][A-Za-z0-9\-]*\.)+[A-Za-z]{2,}$
IsEmail(s) ==
    /\ Len(s) >= 1
    /\ s[1] # "."
    /\ \A i \in 1..(Len(s) - 1) : ~(s[i] = "." /\ s[i + 1] = ".")
    /\ \E at \in 1..Len(s) :
         /\ s[at] = "@"
         /\ at >= 2
         /\ \A i \in 1..(at - 1) : s[i] \in LocalChars
         /\ s[at - 1] \in LocalLast
         /\ \E dot \in (at + 1)..Len(s) :
              /\ DomainLabels(SubSeq(s, at + 1, dot))
              /\ Len(s) - dot >= 2
              /\ \A i \in (dot + 1)..Len(s) : s[i] \in Letters

UserSchemaIssuesNone(data) == <<>>

\* userSchema.parse(data): the issues, by field, in schema order
UserSchemaIssues(data) ==
    (IF IsString(data.email) /\ IsEmail(data.email.v)
     THEN <<>>
     ELSE <<[field |-> "email",
             code |-> IF IsString(data.email) THEN "invalid_format"
                      ELSE "invalid_type"]>>)
    \o
    (IF IsString(data.password) /\ Len(data.password.v) >= 1
     THEN <<>>
     ELSE <<[field |-> "password",
             code |-> IF IsString(data.password) THEN "too_small"
                      ELSE "invalid_type"]>>)

----------------------------------------------------------------------------
(* bcrypt: hash(password, 10) and compare(data, hash) *)

BcryptRounds == 10

\* the controller's bound on the plaintext password
MinPasswordLength == 8

BcryptHashPlain(password, rounds) == password

\* The hash is a string that encodes the cost and the digest of the password:
\* "$" cost "$" digest.  The digest is one-way; the model writes it as the
\* characters it was computed from, which only BcryptCompare looks at.
BcryptHash(password, rounds) ==
    <<"$">> \o (IF rounds = 10 THEN <<"1", "0">> ELSE <<"0">>) \o <<"$">> \o password

\* compare(data, hash) rejects when data is undefined, null or not a string
BcryptCompareThrows(data) == ~IsString(data)

BcryptCompare(data, hash) ==
    \E k \in 2..Len(hash) :
        /\ hash[k] = "$"
        /\ \A j \in 2..(k - 1) : hash[j] # "$"
        /\ SubSeq(hash, k + 1, Len(hash)) = data

----------------------------------------------------------------------------
(* jsonwebtoken: sign({userId}, secret, {expiresIn: '24h'}) and verify *)

\* '24h' in seconds
TokenLifetime == 86400
\* the expiresIn field of the token response
ExpiresInField == 86422

Secret == "JWT_SECRET"

JwtSign(userId, key, t) ==
    [userId |-> userId, iat |-> t, exp |-> t + TokenLifetime, key |-> key]

JwtVerifiesIgnoringExpiry(token, key, t) == token.key = key

\* verify throws on a signature made with another key and on clockTimestamp >= exp
JwtVerifies(token, key, t) == token.key = key /\ t < token.exp

----------------------------------------------------------------------------
(* The Credential Store *)

FindUserByEmailMissing(email) == {}

FindUserByEmail(email) == {u \in users : u.email = email}

NextUserId == Cardinality(users) + 1

----------------------------------------------------------------------------
(* Requests and responses *)

Idle == [kind |-> "idle"]
NoResp == [kind |-> "none"]

Busy(s) == inflight[s].kind # "idle"

Reply(r) == resp' = r

Suspend(s, r) == inflight' = [inflight EXCEPT ![s] = r]
Finish(s) == inflight' = [inflight EXCEPT ![s] = Idle]

\* The lowest free slot takes the next request that suspends.
FreeSlot(s) == ~Busy(s) /\ \A q \in Slots : q < s => Busy(q)

----------------------------------------------------------------------------
(* controllers/authController.ts: register *)

\* A response: the handler that wrote it, the request it answers, the status
\* and the JSON body.
Response(kind, req, status, body) ==
    [kind |-> kind, req |-> req, status |-> status, body |-> body]

RegisterReply(req, status, message) ==
    Response("register", req, status, [message |-> message])

\* the 422 the handlers build from a ZodError: one entry for each issue
ValidationReply(kind, req, issues) ==
    Response(kind, req, 422, [message |-> "Validation failed", errors |-> issues])

InternalErrorWithText(kind, req) ==
    Response(kind, req, 500, [message |-> "Internal server error",
                              error |-> "the message of the error"])

InternalError(kind, req) ==
    Response(kind, req, 500, [message |-> "Internal server error"])

\* lines 9-25: the body checks, then the awaited findUnique by email
Register(s, body) ==
    LET email == body.email
        password == body.password
        req == body
    IN  /\ FreeSlot(s)
        /\ UNCHANGED <<users, tasks, creator, tokens, now>>
        /\ IF Falsy(email) \/ Falsy(password)
           THEN /\ Reply(RegisterReply(req, 422, "Email and password are required"))
                /\ UNCHANGED inflight
           ELSE IF Len(password.v) < MinPasswordLength
           THEN /\ Reply(RegisterReply(req, 422,
                                       "Password must be at least 8 characters long"))
                /\ UNCHANGED inflight
           ELSE IF FindUserByEmail(email.v) # {}
           THEN /\ Reply(RegisterReply(req, 409, "User already exists"))
                /\ UNCHANGED inflight
           ELSE /\ Reply(NoResp)
                /\ Suspend(s, [kind |-> "register", pc |-> "hash",
                               email |-> email, password |-> password])

\* line 27: the awaited bcrypt.hash
RegisterHash(s) ==
    /\ inflight[s].kind = "register"
    /\ inflight[s].pc = "hash"
    /\ Suspend(s, [kind |-> "register", pc |-> "create",
                   email |-> inflight[s].email,
                   password |-> inflight[s].password,
                   hashedPassword |->
                       Str(BcryptHash(inflight[s].password.v, BcryptRounds))])
    /\ Reply(NoResp)
    /\ UNCHANGED <<users, tasks, creator, tokens, now>>

UserInsertNeverRefused(email) == FALSE

\* The row insert of user.create: the store refuses a second row with the
\* same email (unique constraint)
UserInsertRefused(email) == \E u \in users : u.email = email

\* lines 28-53: user.create (validation by the client extension, then the
\* insert) and the response
RegisterCreate(s) ==
    LET r == inflight[s]
        req == [email |-> r.email, password |-> r.password]
        data == [email |-> r.email, password |-> r.hashedPassword]
        issues == UserSchemaIssues(data)
    IN  /\ r.kind = "register"
        /\ r.pc = "create"
        /\ Finish(s)
        /\ UNCHANGED <<tasks, creator, tokens, now>>
        /\ IF issues # <<>>
           THEN /\ Reply(ValidationReply("register", req, issues))
                /\ UNCHANGED users
           ELSE IF UserInsertRefused(data.email.v)
           THEN /\ Reply(InternalError("register", req))
                /\ UNCHANGED users
           ELSE /\ users' = users \cup {[id |-> NextUserId,
                                         email |-> data.email.v,
                                         password |-> data.password.v]}
                /\ Reply(Response("register", req, 201,
                                  [message |-> "User registered successfully",
                                   userId |-> NextUserId]))

----------------------------------------------------------------------------
(* controllers/authController.ts: getToken *)

NoHeader == [scheme |-> "none"]
BasicHeader(credentials) == [scheme |-> "Basic", credentials |-> credentials]
BearerHeader(token) == [scheme |-> "Bearer", token |-> token]

TokenReply(req, status, message) ==
    Response("token", req, status, [message |-> message])

\* lines 59-72: the scheme check, the split of the decoded credentials and
\* the awaited findUnique by email.  The header carries the text that the
\* base64 decoding yields.
GetToken(s, header) ==
    /\ FreeSlot(s)
    /\ UNCHANGED <<users, tasks, creator, tokens, now>>
    /\ IF header.scheme # "Basic"
       THEN /\ Reply(Response("token", [header |-> header], 401,
                               [message |-> "Authentication required",
                                authScheme |-> "Basic"]))
            /\ UNCHANGED inflight
       ELSE LET parts == Split(header.credentials, ":")
                email == Element(parts, 1)
                password == Element(parts, 2)
            IN  /\ Reply(NoResp)
                /\ Suspend(s, [kind |-> "token", pc |-> "compare",
                               header |-> header,
                               user |-> FindUserByEmail(email.v),
                               password |-> password])

\* the comparison, storing a stronger hash of the password once it matches
GetTokenCompareRehashing(s) ==
    LET r == inflight[s]
        req == [header |-> r.header]
    IN  /\ r.kind = "token"
        /\ r.pc = "compare"
        /\ Finish(s)
        /\ UNCHANGED <<tasks, creator, now>>
        /\ IF r.user = {}
           THEN /\ Reply(TokenReply(req, 401, "Invalid credentials"))
                /\ UNCHANGED <<users, tokens>>
           ELSE LET user == CHOOSE u \in r.user : TRUE
                IN  IF BcryptCompareThrows(r.password)
                    THEN /\ Reply(InternalError("token", req))
                         /\ UNCHANGED <<users, tokens>>
                    ELSE IF ~BcryptCompare(r.password.v, user.password)
                    THEN /\ Reply(TokenReply(req, 401, "Invalid credentials"))
                         /\ UNCHANGED <<users, tokens>>
                    ELSE LET token == JwtSign(user.id, Secret, now)
                             rehashed == [user EXCEPT !.password =
                                              BcryptHash(r.password.v, BcryptRounds + 2)]
                         IN  /\ users' = (users \ {user}) \cup {rehashed}
                             /\ tokens' = tokens \cup {token}
                             /\ Reply(Response("token", req, 200,
                                               [token |-> token,
                                                expiresIn |-> ExpiresInField,
                                                tokenType |-> "Bearer"]))

\* lines 74-92: the awaited bcrypt.compare, the signature and the response
GetTokenCompare(s) ==
    LET r == inflight[s]
        req == [header |-> r.header]
    IN  /\ r.kind = "token"
        /\ r.pc = "compare"
        /\ Finish(s)
        /\ UNCHANGED <<users, tasks, creator, now>>
        /\ IF r.user = {}
           THEN /\ Reply(TokenReply(req, 401, "Invalid credentials"))
                /\ UNCHANGED tokens
           ELSE LET user == CHOOSE u \in r.user : TRUE
                IN  IF BcryptCompareThrows(r.password)
                    THEN /\ Reply(InternalError("token", req))
                         /\ UNCHANGED tokens
                    ELSE IF ~BcryptCompare(r.password.v, user.password)
                    THEN /\ Reply(TokenReply(req, 401, "Invalid credentials"))
                         /\ UNCHANGED tokens
                    ELSE LET token == JwtSign(user.id, Secret, now)
                         IN  /\ tokens' = tokens \cup {token}
                             /\ Reply(Response("token", req, 200,
                                               [token |-> token,
                                                expiresIn |-> ExpiresInField,
                                                tokenType |-> "Bearer"]))

----------------------------------------------------------------------------
(* middleware/auth: authenticateJWT *)

\* the gate without its header check: the absent token fails to verify
AuthenticateJWTUnchecked(kind, req, header, t) ==
    IF header.scheme = "Bearer" /\ JwtVerifies(header.token, Secret, t)
    THEN [ok |-> TRUE, user |-> [userId |-> header.token.userId]]
    ELSE [ok |-> FALSE,
          resp |-> Response(kind, req, 403, [message |-> "Invalid or expired token"])]

\* lines 15-34.  ok: next() was called, with req.user the verified payload;
\* otherwise the gate wrote the response itself.  The header carries the
\* token that authHeader.split(' ')[1] yields.
AuthenticateJWT(kind, req, header, t) ==
    IF header.scheme # "Bearer"
    THEN [ok |-> FALSE,
          resp |-> Response(kind, req, 401, [message |-> "Authentication required",
                                             authScheme |-> "Bearer"])]
    ELSE IF JwtVerifies(header.token, Secret, t)
    THEN [ok |-> TRUE, user |-> [userId |-> header.token.userId]]
    ELSE [ok |-> FALSE,
          resp |-> Response(kind, req, 403, [message |-> "Invalid or expired token"])]

----------------------------------------------------------------------------
(* Task text.  A title or a description is a sequence of runs, each a       *)
(* character and the number of times it is repeated.                        *)

Run(c, n) == [c |-> c, n |-> n]

RECURSIVE TextLen(_)
TextLen(text) == IF text = <<>> THEN 0 ELSE Head(text).n + TextLen(Tail(text))

IsSpace(run) == run.c = " "

RECURSIVE TrimStart(_)
TrimStart(text) ==
    IF text # <<>> /\ IsSpace(Head(text)) THEN TrimStart(Tail(text)) ELSE text

RECURSIVE TrimEnd(_)
TrimEnd(text) ==
    IF text # <<>> /\ IsSpace(text[Len(text)])
    THEN TrimEnd(SubSeq(text, 1, Len(text) - 1))
    ELSE text

\* String.prototype.trim
Trim(text) == TrimEnd(TrimStart(text))

----------------------------------------------------------------------------
(* models/Task.ts: taskSchema and the client extension TaskValidation *)

TitleMax == 255
DescriptionMax == 10000

TaskStatus == {"TODO", "IN_PROGRESS", "DONE", "ARCHIVED"}

Issue(field, code) == [field |-> field, code |-> code]

\* One field of the schema: the issues it raises and the value it yields.
Field(issues, value) == [issues |-> issues, value |-> value]

\* z.string().min(1).max(255).transform(trim); under partial(), optional
ParseTitle(x, partial) ==
    IF x = Undefined
    THEN IF partial THEN Field(<<>>, Undefined)
         ELSE Field(<<Issue("title", "invalid_type")>>, Undefined)
    ELSE IF ~IsString(x) THEN Field(<<Issue("title", "invalid_type")>>, Undefined)
    ELSE IF TextLen(x.v) < 1 THEN Field(<<Issue("title", "too_small")>>, Undefined)
    ELSE IF TextLen(x.v) > TitleMax THEN Field(<<Issue("title", "too_big")>>, Undefined)
    ELSE Field(<<>>, Str(Trim(x.v)))

\* z.string().max(10000).transform(trim).optional()
ParseDescription(x) ==
    IF x = Undefined THEN Field(<<>>, Undefined)
    ELSE IF ~IsString(x) THEN Field(<<Issue("description", "invalid_type")>>, Undefined)
    ELSE IF TextLen(x.v) > DescriptionMax
    THEN Field(<<Issue("description", "too_big")>>, Undefined)
    ELSE Field(<<>>, Str(Trim(x.v)))

ParseStatusAnyString(x, partial) ==
    IF x = Undefined THEN Field(<<>>, Str("TODO"))
    ELSE IF IsString(x) THEN Field(<<>>, x)
    ELSE Field(<<Issue("status", "invalid_value")>>, Undefined)

\* z.enum(TaskStatus).optional().default(TaskStatus.TODO).  The default
\* stands in for an undefined input; partial() wraps the field in one more
\* optional, which hands an undefined input on to the default.
ParseStatus(x, partial) ==
    IF x = Undefined THEN Field(<<>>, Str("TODO"))
    ELSE IF IsString(x) /\ x.v \in TaskStatus THEN Field(<<>>, x)
    ELSE Field(<<Issue("status", "invalid_value")>>, Undefined)

\* z.boolean().optional().default(false), the same way
ParseIsArchived(x, partial) ==
    IF x = Undefined THEN Field(<<>>, Bool(FALSE))
    ELSE IF x.t = "boolean" THEN Field(<<>>, x)
    ELSE Field(<<Issue("isArchived", "invalid_type")>>, Undefined)

\* taskSchema.parse(data) or taskSchema.partial().parse(data): the issues
\* in the order of the schema's fields, and the parsed data.  userId is the
\* integer the verified token carries.
TaskSchemaParse(data, partial) ==
    LET ti == ParseTitle(data.title, partial)
        de == ParseDescription(data.description)
        st == ParseStatus(data.status, partial)
        ar == ParseIsArchived(data.isArchived, partial)
    IN  [issues |-> ti.issues \o de.issues \o st.issues \o ar.issues,
         data |-> [title |-> ti.value, description |-> de.value,
                   status |-> st.value, isArchived |-> ar.value,
                   userId |-> data.userId]]

----------------------------------------------------------------------------
(* The Task Store *)

NextTaskId == Cardinality(tasks) + 1

InsertedTaskColumnDefaults(id, data) ==
    [id |-> id,
     title |-> data.title.v,
     description |-> IF data.description = Undefined THEN Null ELSE data.description,
     status |-> "TODO",
     isArchived |-> FALSE,
     userId |-> data.userId]

\* task.create: an undefined description is stored as NULL
InsertedTask(id, data) ==
    [id |-> id,
     title |-> data.title.v,
     description |-> IF data.description = Undefined THEN Null ELSE data.description,
     status |-> data.status.v,
     isArchived |-> data.isArchived.v,
     userId |-> data.userId]

UpdatedTaskAppending(row, data) ==
    [id |-> row.id,
     title |-> IF data.title = Undefined THEN row.title ELSE row.title \o data.title.v,
     description |-> IF data.description = Undefined THEN row.description
                     ELSE data.description,
     status |-> IF data.status = Undefined THEN row.status ELSE data.status.v,
     isArchived |-> IF data.isArchived = Undefined THEN row.isArchived
                    ELSE data.isArchived.v,
     userId |-> data.userId]

\* task.update: a field whose value is undefined is left as it is
UpdatedTask(row, data) ==
    [id |-> row.id,
     title |-> IF data.title = Undefined THEN row.title ELSE data.title.v,
     description |-> IF data.description = Undefined THEN row.description
                     ELSE data.description,
     status |-> IF data.status = Undefined THEN row.status ELSE data.status.v,
     isArchived |-> IF data.isArchived = Undefined THEN row.isArchived
                    ELSE data.isArchived.v,
     userId |-> data.userId]

FindManyTasksUnfiltered(userId) == tasks

\* task.findMany({ where: { userId } })
FindManyTasks(userId) == {row \in tasks : row.userId = userId}

\* task.findUnique({ where: { id } })
FindTaskById(id) == {row \in tasks : row.id = id}

----------------------------------------------------------------------------
(* parseInt(req.params.task_id) *)

DigitValue ==
    [c \in {"0", "1", "2", "3", "4", "5", "6", "7", "8", "9"} |->
        CASE c = "0" -> 0 [] c = "1" -> 1 [] c = "2" -> 2 [] c = "3" -> 3
          [] c = "4" -> 4 [] c = "5" -> 5 [] c = "6" -> 6 [] c = "7" -> 7
          [] c = "8" -> 8 [] c = "9" -> 9]

RECURSIVE DigitsPrefix(_)
DigitsPrefix(s) ==
    IF s # <<>> /\ Head(s) \in DOMAIN DigitValue
    THEN <<Head(s)>> \o DigitsPrefix(Tail(s))
    ELSE <<>>

RECURSIVE Decimal(_)
Decimal(ds) ==
    IF ds = <<>> THEN 0
    ELSE 10 * Decimal(SubSeq(ds, 1, Len(ds) - 1)) + DigitValue[ds[Len(ds)]]

\* the leading digits as a number; NaN when there are none
ParseInt(s) ==
    IF DigitsPrefix(s) = <<>> THEN [t |-> "NaN"]
    ELSE [t |-> "number", v |-> Decimal(DigitsPrefix(s))]

----------------------------------------------------------------------------
(* The task controller: getAllTasks, createTask, updateTask *)

\* const { title, description, status, isArchived } = req.body
TaskInput(body) ==
    [title |-> body.title, description |-> body.description,
     status |-> body.status, isArchived |-> body.isArchived]

\* getAllTasks, lines 6-19, behind the gate
GetAllTasks(header) ==
    LET req == [header |-> header]
        auth == AuthenticateJWT("list", req, header, now)
    IN  /\ UNCHANGED <<users, tasks, creator, tokens, now, inflight>>
        /\ IF ~auth.ok
           THEN Reply(auth.resp)
           ELSE Reply(Response("list", req, 200, FindManyTasks(auth.user.userId)))

\* createTask, lines 21-55, behind the gate
CreateTask(header, body) ==
    LET req == [header |-> header, body |-> body]
        auth == AuthenticateJWT("create", req, header, now)
        taskInput == TaskInput(body)
        parsed == TaskSchemaParse(
                      [title |-> taskInput.title,
                       description |-> taskInput.description,
                       status |-> taskInput.status,
                       isArchived |-> taskInput.isArchived,
                       userId |-> auth.user.userId], FALSE)
    IN  /\ UNCHANGED <<users, tokens, now, inflight>>
        /\ IF ~auth.ok
           THEN /\ Reply(auth.resp)
                /\ UNCHANGED <<tasks, creator>>
           ELSE IF parsed.issues # <<>>
           THEN /\ Reply(ValidationReply("create", req, parsed.issues))
                /\ UNCHANGED <<tasks, creator>>
           ELSE LET savedTask == InsertedTask(NextTaskId, parsed.data)
                IN  /\ Cardinality(tasks) < MaxTasks
                    /\ tasks' = tasks \cup {savedTask}
                    /\ creator' = creator @@ (savedTask.id :> auth.user.userId)
                    /\ Reply(Response("create", req, 201, savedTask))

OwnershipNeverFails(task, userId) == FALSE

OwnershipFailsWhenEqual(task, userId) == task.userId = userId

\* line 73: task.userId !== userId
OwnershipFails(task, userId) == task.userId # userId

\* updateTask with the payload validated before the task is looked up
UpdateTaskValidatingFirst(s, header, task_id, body) ==
    LET req == [header |-> header, task_id |-> task_id, body |-> body]
        auth == AuthenticateJWT("update", req, header, now)
        taskId == ParseInt(task_id)
        task == FindTaskById(taskId.v)
        parsed == TaskSchemaParse(
                      [title |-> body.title, description |-> body.description,
                       status |-> body.status, isArchived |-> body.isArchived,
                       userId |-> auth.user.userId], TRUE)
    IN  /\ FreeSlot(s)
        /\ UNCHANGED <<users, tasks, creator, tokens, now>>
        /\ IF ~auth.ok
           THEN /\ Reply(auth.resp)
                /\ UNCHANGED inflight
           ELSE IF parsed.issues # <<>>
           THEN /\ Reply(ValidationReply("update", req, parsed.issues))
                /\ UNCHANGED inflight
           ELSE IF taskId.t = "NaN"
           THEN /\ Reply(InternalError("update", req))
                /\ UNCHANGED inflight
           ELSE IF task = {}
           THEN /\ Reply(Response("update", req, 404, [message |-> "Task not found"]))
                /\ UNCHANGED inflight
           ELSE IF OwnershipFails(CHOOSE row \in task : TRUE, auth.user.userId)
           THEN /\ Reply(Response("update", req, 403,
                    [message |-> "You are not authorized to update this task"]))
                /\ UNCHANGED inflight
           ELSE /\ Reply(NoResp)
                /\ Suspend(s, [kind |-> "update", pc |-> "update", req |-> req,
                               taskId |-> taskId.v, userId |-> auth.user.userId,
                               taskInput |-> TaskInput(body)])

\* updateTask, lines 57-75, behind the gate: the awaited findUnique and the
\* two checks on its result
UpdateTask(s, header, task_id, body) ==
    LET req == [header |-> header, task_id |-> task_id, body |-> body]
        auth == AuthenticateJWT("update", req, header, now)
        taskId == ParseInt(task_id)
        task == FindTaskById(taskId.v)
    IN  /\ FreeSlot(s)
        /\ UNCHANGED <<users, tasks, creator, tokens, now>>
        /\ IF ~auth.ok
           THEN /\ Reply(auth.resp)
                /\ UNCHANGED inflight
           ELSE IF taskId.t = "NaN"
           THEN /\ Reply(InternalError("update", req))
                /\ UNCHANGED inflight
           ELSE IF task = {}
           THEN /\ Reply(Response("update", req, 404, [message |-> "Task not found"]))
                /\ UNCHANGED inflight
           ELSE IF OwnershipFails(CHOOSE row \in task : TRUE, auth.user.userId)
           THEN /\ Reply(Response("update", req, 403,
                    [message |-> "You are not authorized to update this task"]))
                /\ UNCHANGED inflight
           ELSE /\ Reply(NoResp)
                /\ Suspend(s, [kind |-> "update", pc |-> "update", req |-> req,
                               taskId |-> taskId.v, userId |-> auth.user.userId,
                               taskInput |-> TaskInput(body)])

\* the update written whatever the validation found
UpdateTaskWriteUnvalidated(s) ==
    LET r == inflight[s]
        parsed == TaskSchemaParse(
                      [title |-> r.taskInput.title,
                       description |-> r.taskInput.description,
                       status |-> r.taskInput.status,
                       isArchived |-> r.taskInput.isArchived,
                       userId |-> r.userId], TRUE)
        row == CHOOSE x \in FindTaskById(r.taskId) : TRUE
        updatedTask == UpdatedTask(row, parsed.data)
    IN  /\ r.kind = "update"
        /\ r.pc = "update"
        /\ Finish(s)
        /\ UNCHANGED <<users, creator, tokens, now>>
        /\ tasks' = (tasks \ {row}) \cup {updatedTask}
        /\ IF parsed.issues # <<>>
           THEN Reply(ValidationReply("update", r.req, parsed.issues))
           ELSE Reply(Response("update", r.req, 200, updatedTask))

\* updateTask, lines 77-101: the awaited task.update (validation by the
\* client extension, then the row update) and the response
UpdateTaskWrite(s) ==
    LET r == inflight[s]
        parsed == TaskSchemaParse(
                      [title |-> r.taskInput.title,
                       description |-> r.taskInput.description,
                       status |-> r.taskInput.status,
                       isArchived |-> r.taskInput.isArchived,
                       userId |-> r.userId], TRUE)
        row == CHOOSE x \in FindTaskById(r.taskId) : TRUE
        updatedTask == UpdatedTask(row, parsed.data)
    IN  /\ r.kind = "update"
        /\ r.pc = "update"
        /\ Finish(s)
        /\ UNCHANGED <<users, creator, tokens, now>>
        /\ IF parsed.issues # <<>>
           THEN /\ Reply(ValidationReply("update", r.req, parsed.issues))
                /\ UNCHANGED tasks
           ELSE /\ tasks' = (tasks \ {row}) \cup {updatedTask}
                /\ Reply(Response("update", r.req, 200, updatedTask))

----------------------------------------------------------------------------
(* Calls that throw.  A call into the store, the hasher or the signer may    *)
(* fail for a reason of its own (a lost connection, say); the error lands in *)
(* the catch of the handler that awaited the call, which answers 500.        *)

\* register, line 19: findUnique throws
RegisterLookupThrows(s, body) ==
    /\ FreeSlot(s)
    /\ ~(Falsy(body.email) \/ Falsy(body.password))
    /\ Len(body.password.v) >= MinPasswordLength
    /\ Reply(InternalError("register", body))
    /\ UNCHANGED <<users, tasks, creator, tokens, now, inflight>>

\* register, line 27: bcrypt.hash throws
RegisterHashThrows(s) ==
    /\ inflight[s].kind = "register"
    /\ inflight[s].pc = "hash"
    /\ Finish(s)
    /\ Reply(InternalError("register", [email |-> inflight[s].email,
                                        password |-> inflight[s].password]))
    /\ UNCHANGED <<users, tasks, creator, tokens, now>>

\* register, line 28: the query of user.create throws, the data being valid
RegisterCreateThrows(s) ==
    LET r == inflight[s]
    IN  /\ r.kind = "register"
        /\ r.pc = "create"
        /\ UserSchemaIssues([email |-> r.email, password |-> r.hashedPassword]) = <<>>
        /\ Finish(s)
        /\ Reply(InternalError("register", [email |-> r.email, password |-> r.password]))
        /\ UNCHANGED <<users, tasks, creator, tokens, now>>

\* getToken, line 72: findUnique throws
GetTokenLookupThrows(s, header) ==
    /\ FreeSlot(s)
    /\ header.scheme = "Basic"
    /\ Reply(InternalError("token", [header |-> header]))
    /\ UNCHANGED <<users, tasks, creator, tokens, now, inflight>>

\* getToken, line 74: bcrypt.compare, called for an account that was found,
\* throws
GetTokenCompareThrows(s) ==
    LET r == inflight[s]
    IN  /\ r.kind = "token"
        /\ r.pc = "compare"
        /\ r.user # {}
        /\ Finish(s)
        /\ Reply(InternalError("token", [header |-> r.header]))
        /\ UNCHANGED <<users, tasks, creator, tokens, now>>

\* getToken, line 78: jwt.sign, called once the password matched, throws
GetTokenSignThrows(s) ==
    LET r == inflight[s]
    IN  /\ r.kind = "token"
        /\ r.pc = "compare"
        /\ \E user \in r.user :
               /\ ~BcryptCompareThrows(r.password)
               /\ BcryptCompare(r.password.v, user.password)
        /\ Finish(s)
        /\ Reply(InternalError("token", [header |-> r.header]))
        /\ UNCHANGED <<users, tasks, creator, tokens, now>>

\* getAllTasks, line 10: findMany throws
GetAllTasksThrows(header) ==
    LET req == [header |-> header]
    IN  /\ AuthenticateJWT("list", req, header, now).ok
        /\ Reply(InternalError("list", req))
        /\ UNCHANGED <<users, tasks, creator, tokens, now, inflight>>

\* createTask, line 28: the query of task.create throws, the data being valid
CreateTaskThrows(header, body) ==
    LET req == [header |-> header, body |-> body]
        auth == AuthenticateJWT("create", req, header, now)
        taskInput == TaskInput(body)
    IN  /\ auth.ok
        /\ TaskSchemaParse(
               [title |-> taskInput.title, description |-> taskInput.description,
                status |-> taskInput.status, isArchived |-> taskInput.isArchived,
                userId |-> auth.user.userId], FALSE).issues = <<>>
        /\ Reply(InternalError("create", req))
        /\ UNCHANGED <<users, tasks, creator, tokens, now, inflight>>

\* updateTask, line 65: findUnique throws
UpdateTaskLookupThrows(s, header, task_id, body) ==
    LET req == [header |-> header, task_id |-> task_id, body |-> body]
    IN  /\ FreeSlot(s)
        /\ AuthenticateJWT("update", req, header, now).ok
        /\ Reply(InternalError("update", req))
        /\ UNCHANGED <<users, tasks, creator, tokens, now, inflight>>

\* updateTask, line 77: the query of task.update throws, the data being valid
UpdateTaskWriteThrows(s) ==
    LET r == inflight[s]
    IN  /\ r.kind = "update"
        /\ r.pc = "update"
        /\ TaskSchemaParse(
               [title |-> r.taskInput.title, description |-> r.taskInput.description,
                status |-> r.taskInput.status, isArchived |-> r.taskInput.isArchived,
                userId |-> r.userId], TRUE).issues = <<>>
        /\ Finish(s)
        /\ Reply(InternalError("update", r.req))
        /\ UNCHANGED <<users, tasks, creator, tokens, now>>

----------------------------------------------------------------------------
(* The clock *)

\* the clock advances by half a token lifetime
TickSeconds == TokenLifetime \div 2

Tick ==
    /\ now < MaxTicks * TickSeconds
    /\ now' = now + TickSeconds
    /\ Reply(NoResp)
    /\ UNCHANGED <<users, tasks, creator, tokens, inflight>>

----------------------------------------------------------------------------
(* The requests the environment sends *)

BodyEmails == {Undefined, Str(<<>>), Str(EmailA), Str(EmailZ), Str(EmailBad)}
BodyPasswords == {Undefined, Str(PwPlain), Str(PwColon), Str(PwShort)}

RegisterBodies == [email : BodyEmails, password : BodyPasswords]

\* the registrations that are let to interleave
RaceBodies ==
    {[email |-> Str(EmailA), password |-> Str(PwPlain)],
     [email |-> Str(EmailA), password |-> Str(PwColon)],
     [email |-> Str(EmailA), password |-> Str(PwShort)],
     [email |-> Str(EmailZ), password |-> Str(PwPlain)],
     [email |-> Str(EmailBad), password |-> Str(PwPlain)],
     [email |-> Undefined, password |-> Str(PwPlain)]}

\* email:password, as the Basic scheme joins them
BasicCredentials(email, password) == email \o <<":">> \o password

\* the decoded text of a Basic header: email:password, and texts with an
\* empty password part or with no separator at all
Credentials ==
    {BasicCredentials(EmailA, p) : p \in {PwPlain, PwColon, PwShort, <<>>}}
        \cup {BasicCredentials(EmailZ, PwPlain), EmailA}

TokenHeaders == {NoHeader} \cup {BasicHeader(c) : c \in Credentials}

\* a token signed with a key that is not the server's
ForgedTokens == {JwtSign(1, "other-key", now)}

\* the tokens the server has issued, as clients present them
IssuedHeaders == {BearerHeader(tk) : tk \in tokens}

\* tokens that still verify
FreshHeaders == {BearerHeader(tk) : tk \in {x \in tokens : JwtVerifies(x, Secret, now)}}

\* every kind of Authorization header a task request may carry
TaskHeaders ==
    {NoHeader, BasicHeader(BasicCredentials(EmailA, PwPlain))}
        \cup IssuedHeaders \cup {BearerHeader(tk) : tk \in ForgedTokens}

Body(title, description, status, isArchived) ==
    [title |-> title, description |-> description,
     status |-> status, isArchived |-> isArchived]

\* a body that carries a userId of its own as well
WithUserId(body, userId) ==
    [title |-> body.title, description |-> body.description,
     status |-> body.status, isArchived |-> body.isArchived, userId |-> userId]

TitleA == Str(<<Run("A", 1)>>)
TitleB == Str(<<Run("B", 1)>>)
DescriptionD == Str(<<Run("d", 1)>>)

CreatePlain == Body(TitleA, DescriptionD, Undefined, Undefined)
UpdateTitle == Body(TitleB, Undefined, Undefined, Undefined)

CreateBodies ==
    {CreatePlain,
     WithUserId(Body(TitleA, DescriptionD, Str("DONE"), Bool(TRUE)), 1),
     Body(TitleA, Undefined, Str("NOT_A_STATUS"), Undefined),
     Body(Undefined, DescriptionD, Undefined, Undefined),
     Body(Undefined, Undefined, Str("NOT_A_STATUS"), Undefined)}

UpdateBodies ==
    {UpdateTitle,
     Body(Undefined, Undefined, Str("DONE"), Undefined),
     Body(Undefined, Undefined, Undefined, Bool(TRUE)),
     Body(Undefined, Undefined, Str("NOT_A_STATUS"), Undefined)}

\* titles at the bounds of the schema: 255 and 256 characters, 255 characters
\* between two spaces, spaces only, no character at all, and a short one
\* after a space
Title255 == Str(<<Run("A", 255)>>)
Title256 == Str(<<Run("A", 256)>>)
TitlePadded255 == Str(<<Run(" ", 1), Run("A", 255), Run(" ", 1)>>)
TitleBlank == Str(<<Run(" ", 3)>>)
TitleEmpty == Str(<<>>)
TitlePadded == Str(<<Run(" ", 1), Run("B", 1)>>)

DescriptionEmpty == Str(<<>>)

FieldCreateBodies ==
    {Body(t, DescriptionD, Undefined, Undefined) :
         t \in {Title255, Title256, TitlePadded255, TitleBlank, TitleEmpty, Undefined}}

FieldUpdateBodies ==
    {Body(t, Undefined, Undefined, Undefined) :
         t \in {Title255, Title256, TitlePadded255, TitlePadded}}
        \cup {Body(Undefined, d, Undefined, Undefined) : d \in {Null, DescriptionEmpty}}

\* descriptions at the bounds: 1001, 10000 and 10001 characters, and 10000
\* characters between two spaces
Description1001 == Str(<<Run("d", 1001)>>)
Description10000 == Str(<<Run("d", 10000)>>)
Description10001 == Str(<<Run("d", 10001)>>)
DescriptionPadded10000 == Str(<<Run(" ", 1), Run("d", 10000), Run(" ", 1)>>)

BoundDescriptions ==
    {Description1001, Description10000, Description10001, DescriptionPadded10000,
     Undefined}

UpdateStatus == Body(Undefined, Undefined, Str("DONE"), Undefined)

\* Updates that interleave: one supplies the title only, one the status
\* only, and one carries a userId beside its title
InterleavedUpdateBodies == {UpdateTitle, UpdateStatus, WithUserId(UpdateTitle, 2)}

\* Requests that end with an error beside those that succeed: a registered
\* email, a new one, a short password, a malformed email, no email; a task
\* with no title; a title with a status outside the enumeration
WriteRegisterBodies ==
    {[email |-> Str(EmailA), password |-> Str(PwPlain)],
     [email |-> Str(EmailN), password |-> Str(PwPlain)],
     [email |-> Str(EmailN), password |-> Str(PwShort)],
     [email |-> Str(EmailBad), password |-> Str(PwPlain)],
     [email |-> Undefined, password |-> Str(PwPlain)]}

WriteCreateBodies == {CreatePlain, Body(Undefined, DescriptionD, Undefined, Undefined)}

WriteUpdateBodies ==
    {UpdateTitle, Body(TitleB, Undefined, Str("NOT_A_STATUS"), Undefined)}

\* the :task_id path segment
TaskIdParams == {<<"1">>, <<"2">>, <<"9">>, <<"a", "b", "c">>}

----------------------------------------------------------------------------
(* Specifications *)

\* the service as it starts: empty stores, nothing in flight
Init ==
    /\ users = {}
    /\ tasks = {}
    /\ creator = <<>>
    /\ tokens = {}
    /\ now = 0
    /\ inflight = [s \in Slots |-> Idle]
    /\ resp = NoResp

Next ==
    \/ \E s \in Slots, b \in RegisterBodies : Register(s, b)
    \/ \E s \in Slots : RegisterHash(s)
    \/ \E s \in Slots : RegisterCreate(s)
    \/ \E s \in Slots, h \in TokenHeaders : GetToken(s, h)
    \/ \E s \in Slots : GetTokenCompare(s)
    \/ \E h \in TaskHeaders : GetAllTasks(h)
    \/ \E h \in TaskHeaders, b \in CreateBodies : CreateTask(h, b)
    \/ \E s \in Slots, h \in TaskHeaders, id \in TaskIdParams, b \in UpdateBodies :
           UpdateTask(s, h, id, b)
    \/ \E s \in Slots : UpdateTaskWrite(s)
    \/ Tick

Spec == Init /\ [][Next]_vars

\* Registration, token issuance and the use of an issued token, one request
\* at a time; the clock stands still.
NextAuth ==
    \/ \E b \in RegisterBodies : Register(1, b)
    \/ RegisterHash(1)
    \/ RegisterCreate(1)
    \/ \E h \in TokenHeaders : GetToken(1, h)
    \/ GetTokenCompare(1)
    \/ \E h \in IssuedHeaders : GetAllTasks(h)

SpecAuth == Init /\ [][NextAuth]_vars

\* Registrations interleaving at their suspension points: the lookup, the
\* hashing and the create of one request may each fall between those of
\* another.
NextRace ==
    \/ \E s \in Slots, b \in RaceBodies : Register(s, b)
    \/ \E s \in Slots : RegisterHash(s)
    \/ \E s \in Slots : RegisterCreate(s)

SpecRace == Init /\ [][NextRace]_vars

\* Half a day after account 1 registered and took a token, with account 2
\* just registered and holding a token of its own.
InitTask ==
    /\ users = {[id |-> 1, email |-> EmailA,
                 password |-> BcryptHash(PwPlain, BcryptRounds)],
                [id |-> 2, email |-> EmailZ,
                 password |-> BcryptHash(PwColon, BcryptRounds)]}
    /\ tasks = {}
    /\ creator = <<>>
    /\ tokens = {JwtSign(1, Secret, 0), JwtSign(2, Secret, TickSeconds)}
    /\ now = TickSeconds
    /\ inflight = [s \in Slots |-> Idle]
    /\ resp = NoResp

\* The task handlers, one request at a time, for clients whose tokens verify.
NextTask ==
    \/ \E h \in FreshHeaders : GetAllTasks(h)
    \/ \E h \in FreshHeaders, b \in CreateBodies : CreateTask(h, b)
    \/ \E h \in FreshHeaders, id \in TaskIdParams, b \in UpdateBodies :
           UpdateTask(1, h, id, b)
    \/ UpdateTaskWrite(1)

SpecTask == InitTask /\ [][NextTask]_vars

\* The gate in front of the task handlers as the clock advances: every kind
\* of header, one body for each handler.
NextGate ==
    \/ \E h \in TaskHeaders : GetAllTasks(h)
    \/ \E h \in TaskHeaders : CreateTask(h, CreatePlain)
    \/ \E h \in TaskHeaders, id \in TaskIdParams : UpdateTask(1, h, id, UpdateTitle)
    \/ UpdateTaskWrite(1)
    \/ Tick

SpecGate == InitTask /\ [][NextGate]_vars

\* The task handlers on titles and descriptions at the bounds of the schema,
\* one request at a time, for clients whose tokens verify.
NextField ==
    \/ \E h \in FreshHeaders, b \in FieldCreateBodies : CreateTask(h, b)
    \/ \E h \in FreshHeaders, id \in {<<"1">>, <<"2">>}, b \in FieldUpdateBodies :
           UpdateTask(1, h, id, b)
    \/ UpdateTaskWrite(1)

SpecField == InitTask /\ [][NextField]_vars

\* The task handlers on descriptions at the bounds of the schema, one request
\* at a time, for clients whose tokens verify.
NextDescription ==
    \/ \E h \in FreshHeaders, d \in BoundDescriptions :
           CreateTask(h, Body(TitleA, d, Undefined, Undefined))
    \/ \E h \in FreshHeaders, id \in {<<"1">>, <<"2">>}, d \in BoundDescriptions :
           UpdateTask(1, h, id, Body(Undefined, d, Undefined, Undefined))
    \/ UpdateTaskWrite(1)

SpecDescription == InitTask /\ [][NextDescription]_vars

\* Updates of task 1 interleaving at their suspension points: the lookup of
\* one may fall before the write of another.
NextInterleave ==
    \/ \E h \in FreshHeaders : CreateTask(h, WithUserId(CreatePlain, 2))
    \/ \E s \in Slots, h \in FreshHeaders, b \in InterleavedUpdateBodies :
           UpdateTask(s, h, <<"1">>, b)
    \/ \E s \in Slots : UpdateTaskWrite(s)

SpecInterleave == InitTask /\ [][NextInterleave]_vars

\* The requests that only read, beside the Creates and Updates that fill the
\* Task Store: every kind of header, one body for each handler.
NextRead ==
    \/ \E h \in TokenHeaders : GetToken(1, h)
    \/ GetTokenCompare(1)
    \/ \E h \in TaskHeaders : GetAllTasks(h)
    \/ \E h \in TaskHeaders : CreateTask(h, CreatePlain)
    \/ \E h \in TaskHeaders : UpdateTask(1, h, <<"1">>, UpdateTitle)
    \/ UpdateTaskWrite(1)

SpecRead == InitTask /\ [][NextRead]_vars

\* The requests that write, one at a time, with every kind of header and
\* with bodies that pass and bodies that fail each check.
NextWrite ==
    \/ \E b \in WriteRegisterBodies : Register(1, b)
    \/ RegisterHash(1)
    \/ RegisterCreate(1)
    \/ \E h \in TaskHeaders, b \in WriteCreateBodies : CreateTask(h, b)
    \/ \E h \in TaskHeaders, id \in {<<"1">>, <<"2">>}, b \in WriteUpdateBodies :
           UpdateTask(1, h, id, b)
    \/ UpdateTaskWrite(1)

SpecWrite == InitTask /\ [][NextWrite]_vars

\* the requests of the service with calls that may throw
FaultRegisterBodies ==
    {[email |-> Str(EmailA), password |-> Str(PwPlain)],
     [email |-> Str(EmailBad), password |-> Str(PwPlain)]}

FaultTokenHeaders ==
    {BasicHeader(BasicCredentials(EmailA, PwPlain)),
     BasicHeader(BasicCredentials(EmailA, PwShort))}

\* a step in which a call into the store, the hasher or the signer throws
CallThrows ==
    \/ \E b \in FaultRegisterBodies : RegisterLookupThrows(1, b)
    \/ RegisterHashThrows(1)
    \/ RegisterCreateThrows(1)
    \/ \E h \in FaultTokenHeaders : GetTokenLookupThrows(1, h)
    \/ GetTokenCompareThrows(1)
    \/ GetTokenSignThrows(1)
    \/ \E h \in IssuedHeaders : GetAllTasksThrows(h)
    \/ \E h \in IssuedHeaders : CreateTaskThrows(h, CreatePlain)
    \/ \E h \in IssuedHeaders, id \in {<<"1">>, <<"2">>} :
           UpdateTaskLookupThrows(1, h, id, UpdateTitle)
    \/ UpdateTaskWriteThrows(1)

\* The five entry points, one request at a time, each call of theirs either
\* returning or throwing.
NextFault ==
    \/ \E b \in FaultRegisterBodies : Register(1, b)
    \/ RegisterHash(1)
    \/ RegisterCreate(1)
    \/ \E h \in FaultTokenHeaders : GetToken(1, h)
    \/ GetTokenCompare(1)
    \/ \E h \in IssuedHeaders : GetAllTasks(h)
    \/ \E h \in IssuedHeaders : CreateTask(h, CreatePlain)
    \/ \E h \in IssuedHeaders, id \in {<<"1">>, <<"2">>} :
           UpdateTask(1, h, id, UpdateTitle)
    \/ UpdateTaskWrite(1)
    \/ CallThrows

SpecFault == Init /\ [][NextFault]_vars

----------------------------------------------------------------------------
(* What the claims speak of *)

\* the account a bearer request acts for: the one its token was issued to
Requester(r) == r.req.header.token.userId

\* the row a request's path names, in a given store
TargetRows(r, store) ==
    IF ParseInt(r.req.task_id).t = "NaN" THEN {}
    ELSE {row \in store : row.id = ParseInt(r.req.task_id).v}

\* a task request that passed the gate
Authenticated(r) ==
    /\ r.kind \in {"list", "create", "update"}
    /\ r.req.header.scheme = "Bearer"
    /\ r.req.header.token.key = Secret
    /\ now < r.req.header.token.iat + TokenLifetime

\* the fields of a payload that the schema of section 3 rejects
StatusInvalid(b) == b.status # Undefined /\ ~(IsString(b.status) /\ b.status.v \in TaskStatus)
TitleInvalid(b) ==
    b.title # Undefined
        /\ ~(IsString(b.title) /\ TextLen(b.title.v) >= 1 /\ TextLen(b.title.v) <= TitleMax)
PayloadInvalid(b) == StatusInvalid(b) \/ TitleInvalid(b)

----------------------------------------------------------------------------
(* C1 *)

\* C1: a List by an authenticated account A returns exactly the tasks whose
\* owner is A: every task A created is in it, and no task that another
\* account created or owns.
C1_ListReturnsOwnTasks ==
    (resp.kind = "list" /\ resp.status = 200) =>
        /\ resp.body = {row \in tasks : row.userId = Requester(resp)}
        /\ \A id \in DOMAIN creator :
               creator[id] = Requester(resp) <=> (\E row \in resp.body : row.id = id)

\* A's list is answered with A's tasks while another account's task, and a
\* task A has updated, are in the store
C1_Witness ==
    /\ resp.kind = "list"
    /\ resp.status = 200
    /\ resp.body # {}
    /\ \E row \in tasks : row.userId # Requester(resp)
    /\ \E row \in resp.body : row.title = TitleB.v

----------------------------------------------------------------------------
(* C2 *)

\* C2: an Update by an authenticated account on an existing task of another
\* account is answered 403 whatever the payload, and the store is left as it
\* was.
C2_ForeignUpdateForbidden ==
    [][(/\ resp'.kind = "update"
        /\ Authenticated(resp')
        /\ \E row \in TargetRows(resp', tasks) : row.userId # Requester(resp'))
       => (resp'.status = 403 /\ tasks' = tasks)]_vars

\* a non-owner's Update of an existing task was answered 403
C2_Witness ==
    /\ resp.kind = "update"
    /\ resp.status = 403
    /\ \E row \in TargetRows(resp, tasks) : row.userId # Requester(resp)
    /\ resp.req.body.title # Undefined

----------------------------------------------------------------------------
(* C3 *)

\* C3: a successful Update by the owner changes only the fields the request
\* supplied: each of title, description, status and isArchived that is
\* omitted keeps the value it had.
C3_OmittedFieldsKept ==
    [][(resp'.kind = "update" /\ resp'.status = 200) =>
        \A old \in TargetRows(resp', tasks), new \in TargetRows(resp', tasks') :
            /\ resp'.req.body.title = Undefined => new.title = old.title
            /\ resp'.req.body.description = Undefined
                   => new.description = old.description
            /\ resp'.req.body.status = Undefined => new.status = old.status
            /\ resp'.req.body.isArchived = Undefined
                   => new.isArchived = old.isArchived]_vars

----------------------------------------------------------------------------
(* C4 *)

----------------------------------------------------------------------------
(* C5 *)

\* the password an account registered with is the one its stored hash matches
RegisteredWith(u, password) == BcryptCompare(password, u.password)

\* C5: for every account registered with an accepted password (at least 8
\* characters, ':' among them or not), Token-Issuance with the Basic header
\* encoding email:password answers 200, and the token it issues is accepted by
\* the gate as a Bearer credential and resolves to that account's identifier.
C5_CorrectPasswordGetsToken ==
    (resp.kind = "token" /\ resp.req.header.scheme = "Basic") =>
        \A u \in users : \A pw \in {PwPlain, PwColon} :
            (/\ Len(pw) >= 8
             /\ RegisteredWith(u, pw)
             /\ resp.req.header.credentials = BasicCredentials(u.email, pw)) =>
                /\ resp.status = 200
                /\ LET auth == AuthenticateJWT("list", [header |-> NoHeader],
                                               BearerHeader(resp.body.token), now)
                   IN  auth.ok /\ auth.user.userId = u.id

----------------------------------------------------------------------------
(* C6 *)

\* C6: a Basic credential that does not authenticate gets one and the same
\* response whether or not its email belongs to an account.  With no account
\* of that email the answer is 401 'Invalid credentials'; so is then the
\* answer when the email is registered and the password does not match.
C6_FailuresIndistinguishable ==
    (resp.kind = "token" /\ resp.req.header.scheme = "Basic" /\ resp.status # 200) =>
        /\ resp.status = 401
        /\ resp.body = [message |-> "Invalid credentials"]

----------------------------------------------------------------------------
(* C7 *)

\* the accounts that hold the email of a registration request
Holders(r, accounts) == {u \in accounts : u.email = r.req.email.v}

\* C7 as stated: a valid email and a password of at least 8 characters with no
\* account of that email register with 201 and create one Account; a later
\* Registration with that email, whatever its password, is answered 409 and
\* creates no Account.
C7_AnyPasswordConflicts ==
    [][(resp'.kind = "register" /\ IsString(resp'.req.email)) =>
           /\ (/\ Holders(resp', users) = {}
               /\ IsEmail(resp'.req.email.v)
               /\ IsString(resp'.req.password)
               /\ Len(resp'.req.password.v) >= 8) =>
                  (resp'.status = 201 /\ Cardinality(users') = Cardinality(users) + 1)
           /\ Holders(resp', users) # {} =>
                  (resp'.status = 409 /\ users' = users)]_vars

\* C7, amended: the later Registration is answered 409 when its password has
\* at least 8 characters; it creates no Account whatever its password.
C7_LaterRegistrationConflicts ==
    [][(resp'.kind = "register" /\ IsString(resp'.req.email)) =>
           /\ (/\ Holders(resp', users) = {}
               /\ IsEmail(resp'.req.email.v)
               /\ IsString(resp'.req.password)
               /\ Len(resp'.req.password.v) >= 8) =>
                  /\ resp'.status = 201
                  /\ \E u \in users' \ users :
                         /\ users' = users \cup {u}
                         /\ u.email = resp'.req.email.v
                         /\ u.id = resp'.body.userId
           /\ Holders(resp', users) # {} =>
                  /\ users' = users
                  /\ (IsString(resp'.req.password) /\ Len(resp'.req.password.v) >= 8) =>
                         resp'.status = 409]_vars

\* a Registration for a registered email, with another password of 8
\* characters, has been answered 409
C7_Witness ==
    /\ resp.kind = "register"
    /\ resp.status = 409
    /\ resp.req.password = Str(PwColon)
    /\ \E u \in users : u.email = resp.req.email.v /\ RegisteredWith(u, PwPlain)

----------------------------------------------------------------------------
(* C8 *)

\* C8: no two Accounts have the same email, however Registrations for one
\* email interleave at the lookup, the hashing and the create.
C8_OneAccountPerEmail ==
    \A u \in users : \A v \in users : u.email = v.email => u = v

\* two Registrations for one email both passed the lookup; the create of the
\* second was refused
C8_Witness ==
    /\ resp.kind = "register"
    /\ resp.status = 500
    /\ \E u \in users : u.email = resp.req.email.v

----------------------------------------------------------------------------
(* C9 *)

\* a task request whose Bearer token does not verify: signed with another
\* key, or issued 24 hours ago or more
TokenRejected(r) ==
    /\ r.kind \in {"list", "create", "update"}
    /\ r.req.header.scheme = "Bearer"
    /\ \/ r.req.header.token.key # Secret
       \/ now >= r.req.header.token.iat + 86400

\* the step receives a request: it is not the end of one that was in flight
\* (whose token the gate verified when it arrived)
Arrival == \A s \in Slots : Busy(s) => inflight'[s] = inflight[s]

----------------------------------------------------------------------------
(* C10 *)

\* C10: a List, Create or Update request with no Authorization header in the
\* Bearer scheme is answered 401 'Authentication required'; the handler does
\* not run: the Task Store is left as it was, no task is in the response and
\* no update is left in flight.
C10_NoBearerIs401 ==
    [][(resp'.kind \in {"list", "create", "update"}
            /\ resp'.req.header.scheme # "Bearer") =>
           /\ resp'.status = 401
           /\ resp'.body = [message |-> "Authentication required",
                            authScheme |-> "Bearer"]
           /\ tasks' = tasks
           /\ creator' = creator
           /\ inflight' = inflight]_vars

\* an Update with a Basic header was turned away, with the task it names in
\* the store
C10_Witness ==
    /\ resp.kind = "update"
    /\ resp.req.header.scheme = "Basic"
    /\ resp.status = 401
    /\ TargetRows(resp, tasks) # {}


----------------------------------------------------------------------------
(* C11 *)

\* C11: a successful Create persists exactly one new Task; its owner is the
\* account the token resolves to, whatever userId the body carries; its
\* status is the supplied one, or TODO when omitted; its archived flag is the
\* supplied one, or false when omitted; the response is 201 with that Task.
C11_CreatePersistsOneTask ==
    [][(resp'.kind = "create" /\ resp'.status = 201) =>
           \E row \in tasks' \ tasks :
               /\ tasks' = tasks \cup {row}
               /\ \A old \in tasks : old.id # row.id
               /\ row.userId = Requester(resp')
               /\ row.status = IF resp'.req.body.status = Undefined THEN "TODO"
                               ELSE resp'.req.body.status.v
               /\ row.isArchived = IF resp'.req.body.isArchived = Undefined THEN FALSE
                                   ELSE resp'.req.body.isArchived.v
               /\ resp'.body = row]_vars

\* a Create that supplied status and archived flag, and a userId that is
\* not the requester's, has been answered 201
C11_Witness ==
    /\ resp.kind = "create"
    /\ resp.status = 201
    /\ resp.req.body.status = Str("DONE")
    /\ "userId" \in DOMAIN resp.req.body
    /\ resp.req.body.userId # Requester(resp)
    /\ resp.body \in tasks

----------------------------------------------------------------------------
(* C12 *)

\* the entries of an errors list that name a field
ErrorsOn(errors, field) == {i \in 1..Len(errors) : errors[i].field = field}

\* a Create, or an Update of a task the requester owns, that passed the gate
ReachesValidation(r, store) ==
    /\ Authenticated(r)
    /\ \/ r.kind = "create"
       \/ /\ r.kind = "update"
          /\ \E row \in TargetRows(r, store) : row.userId = Requester(r)

\* C12: a Create, or an Update by the task's owner, whose status is not one
\* of TODO, IN_PROGRESS, DONE, ARCHIVED is answered 422 with an errors list
\* in which exactly one entry has the field 'status' (the only entry when the
\* rest of the payload is valid), and no Task is created or changed.
C12_InvalidStatusIs422 ==
    [][(/\ ReachesValidation(resp', tasks)
        /\ resp'.req.body.status # Undefined
        /\ ~(/\ IsString(resp'.req.body.status)
             /\ resp'.req.body.status.v \in {"TODO", "IN_PROGRESS", "DONE", "ARCHIVED"})) =>
           /\ resp'.status = 422
           /\ Cardinality(ErrorsOn(resp'.body.errors, "status")) = 1
           /\ ~TitleInvalid(resp'.req.body)
                  /\ (resp'.kind = "update" \/ resp'.req.body.title # Undefined) =>
                  Len(resp'.body.errors) = 1
           /\ tasks' = tasks]_vars

\* the owner's Update with status NOT_A_STATUS has been answered 422
C12_Witness ==
    /\ resp.kind = "update"
    /\ resp.status = 422
    /\ resp.req.body.status = Str("NOT_A_STATUS")
    /\ \E row \in TargetRows(resp, tasks) : row.userId = Requester(resp)

----------------------------------------------------------------------------
(* C13 *)

\* the length of a title once trimmed
TrimmedLen(x) == TextLen(Trim(x.v))

\* C13: the title bound is 255 characters after trimming.  A Create or an
\* owner's Update whose title has exactly 255 characters after trim is
\* accepted, also when spaces around it make the input longer; one whose
\* title has 256 characters after trim is answered 422 with a single error,
\* on field 'title'.
C13_TitleBoundAfterTrim ==
    [][(ReachesValidation(resp', tasks) /\ IsString(resp'.req.body.title)) =>
           /\ TrimmedLen(resp'.req.body.title) = 255 =>
                  resp'.status = IF resp'.kind = "create" THEN 201 ELSE 200
           /\ TrimmedLen(resp'.req.body.title) = 256 =>
                  /\ resp'.status = 422
                  /\ Len(resp'.body.errors) = 1
                  /\ resp'.body.errors[1].field = "title"]_vars

----------------------------------------------------------------------------
(* C14 *)

\* a title that is absent, empty or made of whitespace only
TitleMissing(x) == x = Undefined \/ (IsString(x) /\ TrimmedLen(x) = 0)

\* C14: a Create whose title is absent, empty or whitespace only is answered
\* 422 with exactly one error, on field 'title', and persists no Task; so no
\* persisted Task ever has an empty title.
C14_BlankTitleRejected ==
    [][/\ (/\ resp'.kind = "create"
           /\ Authenticated(resp')
           /\ TitleMissing(resp'.req.body.title)) =>
              /\ resp'.status = 422
              /\ Len(resp'.body.errors) = 1
              /\ resp'.body.errors[1].field = "title"
              /\ tasks' = tasks
       /\ \A row \in tasks' : row.title # <<>>]_vars

----------------------------------------------------------------------------
(* C15 *)

\* the rules of Registration a request violates: the email is missing or not
\* an email, the password is missing or shorter than 8 characters
EmailRuleViolated(r) ==
    Falsy(r.req.email) \/ (IsString(r.req.email) /\ ~IsEmail(r.req.email.v))
PasswordRuleViolated(r) ==
    Falsy(r.req.password) \/ (IsString(r.req.password) /\ Len(r.req.password.v) < 8)
RulesViolated(r) ==
    (IF EmailRuleViolated(r) THEN 1 ELSE 0) + (IF PasswordRuleViolated(r) THEN 1 ELSE 0)

\* C15 as stated: a Registration that violates a rule is answered 422,
\* creates no Account, and carries an errors list with one entry for each
\* violated rule, both entries when both rules are violated.
C15_OneErrorPerViolatedRule ==
    [][(resp'.kind = "register" /\ RulesViolated(resp') > 0) =>
           /\ resp'.status = 422
           /\ users' = users
           /\ "errors" \in DOMAIN resp'.body
           /\ Len(resp'.body.errors) = RulesViolated(resp')]_vars

\* C15, amended: such a Registration is answered 422 and creates no Account.
\* A missing email or password gets the single message 'Email and password
\* are required'; otherwise a password shorter than 8 characters gets the
\* single message 'Password must be at least 8 characters long', whatever the
\* email; only an email that is not an email, with a password of at least 8
\* characters, gets an errors list, of one entry, on field 'email'.
C15_ViolationsAre422 ==
    [][(resp'.kind = "register" /\ RulesViolated(resp') > 0) =>
           /\ resp'.status = 422
           /\ users' = users
           /\ IF Falsy(resp'.req.email) \/ Falsy(resp'.req.password)
              THEN resp'.body = [message |-> "Email and password are required"]
              ELSE IF PasswordRuleViolated(resp')
              THEN resp'.body =
                       [message |-> "Password must be at least 8 characters long"]
              ELSE /\ "errors" \in DOMAIN resp'.body
                   /\ Len(resp'.body.errors) = 1
                   /\ resp'.body.errors[1].field = "email"]_vars

\* a Registration whose email is not an email, with a password of 8
\* characters, went through the hashing and was answered 422 on 'email'
C15_Witness ==
    /\ resp.kind = "register"
    /\ resp.req.email = Str(EmailBad)
    /\ resp.req.password = Str(PwPlain)
    /\ resp.status = 422
    /\ resp.body.errors[1].field = "email"

----------------------------------------------------------------------------
(* C16 *)

\* C16: the expiresIn of a successful Token-Issuance is the token's
\* remaining lifetime in seconds at issuance: the 24 hours signed into the
\* token, 86400 seconds.
C16_ExpiresInIsLifetime ==
    (resp.kind = "token" /\ resp.status = 200) =>
        /\ resp.body.expiresIn = resp.body.token.exp - resp.body.token.iat
        /\ resp.body.expiresIn = 86400

----------------------------------------------------------------------------
(* C17 *)

\* C17: an authenticated Update whose path identifier matches no stored Task
\* is answered 404, for every payload and every identifier, those that do
\* not parse as a number among them, and leaves the Task Store unchanged.
C17_UnknownTaskIs404 ==
    [][(/\ Arrival
        /\ resp'.kind = "update"
        /\ Authenticated(resp')
        /\ TargetRows(resp', tasks) = {}) =>
           (resp'.status = 404 /\ tasks' = tasks)]_vars

----------------------------------------------------------------------------
(* C18 *)

\* a description that is cleared: NULL, or the empty string
Cleared(description) == description \in {Null, Str(<<>>)}

\* C18: in an Update by the owner, a description given as null or as the
\* empty string succeeds and clears the stored description; an omitted
\* description leaves the stored one as it is.
C18_DescriptionClearedOrKept ==
    [][(/\ ReachesValidation(resp', tasks)
        /\ resp'.kind = "update"
        /\ ~PayloadInvalid(resp'.req.body)) =>
           /\ Cleared(resp'.req.body.description) =>
                  /\ resp'.status = 200
                  /\ \A new \in TargetRows(resp', tasks') : Cleared(new.description)
           /\ resp'.req.body.description = Undefined =>
                  \A old \in TargetRows(resp', tasks), new \in TargetRows(resp', tasks') :
                      new.description = old.description]_vars

----------------------------------------------------------------------------
(* C19 *)

\* what the Update of request r, issued once more by the same account, makes
\* of a row: the payload validated again and written again
UpdatedAgain(row, r) ==
    LET parsed == TaskSchemaParse(
                      [title |-> TaskInput(r.req.body).title,
                       description |-> TaskInput(r.req.body).description,
                       status |-> TaskInput(r.req.body).status,
                       isArchived |-> TaskInput(r.req.body).isArchived,
                       userId |-> Requester(r)], TRUE)
    IN  IF parsed.issues # <<>> THEN [rejected |-> parsed.issues]
        ELSE UpdatedTask(row, parsed.data)

\* C19: Update is idempotent.  Whatever the task was and whatever accepted
\* payload the owner sent, the Task that the Update has persisted is the Task
\* that the same Update, applied once more, persists.
C19_UpdateIdempotent ==
    [][(resp'.kind = "update" /\ resp'.status = 200) =>
           \A new \in TargetRows(resp', tasks') :
               /\ resp'.body = new
               /\ UpdatedAgain(new, resp') = new]_vars

\* an Update whose title is trimmed on the way in has been persisted
C19_Witness ==
    /\ resp.kind = "update"
    /\ resp.status = 200
    /\ resp.req.body.title = TitlePadded
    /\ resp.body \in tasks
    /\ resp.body.title = <<Run("B", 1)>>

----------------------------------------------------------------------------
(* C20 *)

\* the plaintext passwords that requests submit
Plaintexts == {PwPlain, PwColon, PwShort}

\* the fields a response of Registration or Token-Issuance is made of, none
\* of which holds a password or a hash: texts the handler wrote, the account
\* identifier, the validation issues, the signed token and its description
BodyFields == {"message", "userId", "errors", "token", "expiresIn", "tokenType",
               "authScheme"}

\* C20: the password stored for an Account is the hash of the plaintext
\* submitted at registration and never that plaintext, and no response of
\* Registration or Token-Issuance carries the plaintext or the stored hash.
C20_PasswordNeverExposed ==
    [][/\ (resp'.kind = "register" /\ resp'.status = 201) =>
              \A u \in users' \ users :
                  /\ u.password # resp'.req.password.v
                  /\ BcryptCompare(resp'.req.password.v, u.password)
       /\ \A u \in users' : u.password \notin Plaintexts
       /\ resp'.kind \in {"register", "token"} =>
              /\ DOMAIN resp'.body \subseteq BodyFields
              /\ "errors" \in DOMAIN resp'.body =>
                     \A i \in 1..Len(resp'.body.errors) :
                         DOMAIN resp'.body.errors[i] = {"field", "code"}
              /\ "token" \in DOMAIN resp'.body =>
                     DOMAIN resp'.body.token = {"userId", "iat", "exp", "key"}]_vars

\* an account has registered with a password and holds its hash, and a
\* token has been issued to it
C20_Witness ==
    /\ resp.kind = "token"
    /\ resp.status = 200
    /\ \E u \in users :
           /\ u.id = resp.body.token.userId
           /\ u.password = BcryptHash(PwPlain, BcryptRounds)
           /\ u.password # PwPlain

----------------------------------------------------------------------------
(* C21 *)

\* C21: when a call into the Credential Store, the Task Store, the hasher or
\* the signer throws during Registration, Token-Issuance, List, Create or
\* Update, the request ends with 500 and the message 'Internal server error'
\* and nothing else in the body; the call is not tried again: the request is
\* over and has written nothing; the requests that follow are served from
\* the state the failed one found.
C21_ThrownCallIs500 ==
    [][/\ CallThrows => (resp'.kind # "none" /\ resp'.status = 500)
       /\ (resp'.kind # "none" /\ resp'.status = 500) =>
              /\ resp'.body = [message |-> "Internal server error"]
              /\ users' = users
              /\ tasks' = tasks
              /\ tokens' = tokens
              /\ \A s \in Slots : inflight'[s] \in {Idle, inflight[s]}]_vars

\* findMany threw in a List of an account that has tasks, and the List was
\* answered 500
C21_Witness ==
    /\ resp.kind = "list"
    /\ resp.status = 500
    /\ \E row \in tasks : row.userId = Requester(resp)

----------------------------------------------------------------------------
(* C22 *)

\* C22: a Create or an owner's Update is accepted when its description has at
\* most 10000 characters after trimming or is omitted, and is answered 422
\* with a single error, on field 'description', when it has more than 10000
\* characters after trimming.
C22_DescriptionBoundAfterTrim ==
    [][(/\ ReachesValidation(resp', tasks)
        /\ ~PayloadInvalid(resp'.req.body)
        /\ resp'.kind = "create" => resp'.req.body.title # Undefined
        /\ resp'.req.body.description = Undefined
               \/ IsString(resp'.req.body.description)) =>
           IF resp'.req.body.description = Undefined
                  \/ TrimmedLen(resp'.req.body.description) <= 10000
           THEN resp'.status = IF resp'.kind = "create" THEN 201 ELSE 200
           ELSE /\ resp'.status = 422
                /\ Len(resp'.body.errors) = 1
                /\ resp'.body.errors[1].field = "description"]_vars

----------------------------------------------------------------------------
(* C23 *)

\* C23: a Create whose description is longer than 1000 characters, 1001 for
\* one, with a valid title is answered 422 with exactly one errors entry on
\* field 'description', and no Task is created.
C23_DescriptionOver1000Rejected ==
    [][(/\ resp'.kind = "create"
        /\ Authenticated(resp')
        /\ resp'.req.body.title # Undefined
        /\ ~PayloadInvalid(resp'.req.body)
        /\ IsString(resp'.req.body.description)
        /\ TextLen(resp'.req.body.description.v) > 1000) =>
           /\ resp'.status = 422
           /\ Cardinality(ErrorsOn(resp'.body.errors, "description")) = 1
           /\ tasks' = tasks]_vars

----------------------------------------------------------------------------
(* C24 *)

\* C24: each Task's owner is the account that created it.  No Create and no
\* Update changes it: not one that carries a userId in its body, not one
\* issued by another account.
C24_OwnerIsCreator ==
    \A row \in tasks : row.id \in DOMAIN creator /\ row.userId = creator[row.id]

\* an Update that carried the userId of another account in its body has
\* been written, and the task is still its requester's
C24_Witness ==
    /\ resp.kind = "update"
    /\ resp.status = 200
    /\ "userId" \in DOMAIN resp.req.body
    /\ resp.req.body.userId # Requester(resp)
    /\ resp.body \in tasks
    /\ resp.body.userId = Requester(resp)

----------------------------------------------------------------------------
(* C25 *)

\* a step of a Token-Issuance request: its arrival, its comparison or its
\* response
TokenIssuanceStep ==
    \/ resp'.kind = "token"
    \/ \E s \in Slots : inflight'[s] # inflight[s] /\ inflight'[s].kind = "token"

\* a task request answered by the gate, before its handler
GateRejects ==
    /\ Arrival
    /\ resp'.kind \in {"list", "create", "update"}
    /\ ~Authenticated(resp')

\* C25: Token-Issuance, whether it succeeds or fails, the Request
\* Authentication Gate and List leave the set of Accounts and the set of
\* Tasks, with all their fields, as they were before the request.
C25_ReadsLeaveStores ==
    [][(TokenIssuanceStep \/ GateRejects \/ resp'.kind = "list") =>
           (users' = users /\ tasks' = tasks)]_vars

\* a token has been issued while the Task Store holds a task
C25_Witness ==
    /\ resp.kind = "token"
    /\ resp.status = 200
    /\ tasks # {}

----------------------------------------------------------------------------
(* C26 *)

\* C26: when two Registrations for one unregistered email both perform the
\* lookup before either performs the create, the create that comes first
\* ends with 201 and the one that comes second, finding the email taken,
\* ends with 409; neither ends with 500.
C26_RaceLoserConflicts ==
    [][\A s \in Slots :
           (/\ inflight[s].kind = "register"
            /\ inflight[s].pc = "create"
            /\ inflight'[s] = Idle
            /\ UserSchemaIssues([email |-> inflight[s].email,
                                 password |-> inflight[s].hashedPassword]) = <<>>) =>
               /\ resp'.kind = "register"
               /\ resp'.status = IF \E u \in users : u.email = inflight[s].email.v
                                 THEN 409 ELSE 201]_vars

----------------------------------------------------------------------------
(* C27 *)

\* the fields of a Task that a body supplies
Supplied(body) ==
    {f \in {"title", "description", "status", "isArchived"} : body[f] # Undefined}

\* the row holds every value the body supplied
Carries(row, body) ==
    \A f \in Supplied(body) :
        row[f] = IF f = "description" THEN body[f] ELSE body[f].v

\* C27: two Updates by the owner of one Task that supply disjoint fields
\* and interleave both succeed, and the Task then carries the values of
\* both: the Update written second, which was in flight while the first was
\* written, overwrites no field it did not supply.
C27_DisjointUpdatesBothKept ==
    [][\A s \in Slots :
           (/\ resp.kind = "update"
            /\ resp.status = 200
            /\ inflight[s].kind = "update"
            /\ inflight'[s] = Idle
            /\ inflight[s].taskId = resp.body.id
            /\ inflight[s].userId = resp.body.userId
            /\ Supplied(inflight[s].req.body) # {}
            /\ Supplied(resp.req.body) # {}
            /\ Supplied(inflight[s].req.body) \cap Supplied(resp.req.body) = {}) =>
               /\ resp'.kind = "update"
               /\ resp'.status = 200
               /\ \A row \in tasks' : row.id = inflight[s].taskId =>
                      /\ Carries(row, resp.req.body)
                      /\ Carries(row, inflight[s].req.body)]_vars

----------------------------------------------------------------------------
(* C28 *)

\* the statuses of a Registration, a Create or an Update that failed
ErrorStatuses == {401, 403, 404, 409, 422}

\* one row was inserted into, or replaced in, one of the two stores
OneWrite ==
    \/ /\ tasks' = tasks
       /\ users \subseteq users'
       /\ Cardinality(users' \ users) = 1
    \/ /\ users' = users
       /\ Cardinality(tasks' \ tasks) = 1
       /\ Cardinality(tasks \ tasks') <= 1

=============================================================================
